---------------------------- MODULE Spec2Model ----------------------------
(***************************************************************************)
(* A model of nerf-navigation's quad_plot.py: the grid path seeder astar   *)
(* and the trajectory optimiser System.                                    *)
(*                                                                         *)
(* quad_plot.py is an unresolved merge.  astar and rot_matrix_to_vec exist *)
(* only on the HEAD side (lines 583-680); the System methods are modelled  *)
(* from the 5b4965e side (the text between ======= and >>>>>>>) together   *)
(* with the lines common to both sides.                                    *)
(*                                                                         *)
(* Reals are kept in fixed point: the real r is the integer r * Scale.     *)
(* Angles are counted in quarter turns.  The inputs explored keep every    *)
(* motion on the z axis and every rotation a multiple of a quarter turn,   *)
(* so that norms, sines and the divisions by dt are exact.                 *)
(***************************************************************************)
EXTENDS Integers, Sequences, FiniteSets, TLC

VARIABLES
    \* ---- astar(occupied, start, goal) ----
    shape,        \* occupied.shape, <<sx, sy, sz>>
    occupied,     \* the cells whose entry of the boolean array is True
    start,
    goal,
    close_set,
    came_from,    \* dict cell -> cell
    gscore,       \* dict cell -> int
    open_heap,    \* the heap's entries; an entry (fscore, cell) is kept as <<g, cell>>
    apc,          \* "search" | "returned" | "raised" | "assert" | "off"
    path,         \* the returned cell sequence
    \* ---- System ----
    cfg,          \* T_final, epochs_init, epochs_update, fade_out_epoch
    steps,
    dt,
    start_state,  \* [pos, vel, R, omega]
    end_state,
    states,       \* the free rows <<x, y, z, angle>>
    initial_accel,
    epoch,
    files,        \* file name -> content
    pc,           \* where the running method is
    it,           \* the loop variable of learn_init / learn_update
    calls,        \* the number of method calls made on the System so far
    last_call,    \* the last method called: [op, arg]
    raised,       \* the exception the last method call ended with, or "none"
    params0       \* the parameters __init__ set: [states, initial_accel]

astarVars == <<shape, occupied, start, goal, close_set, came_from, gscore, open_heap, apc, path>>

sysVars == <<cfg, steps, dt, start_state, end_state, states, initial_accel, epoch,
             files, pc, it, calls, last_call, raised, params0>>

vars == <<astarVars, sysVars>>

-----------------------------------------------------------------------------
(* Bounds *)

\* the occupancy grids explored have at most MaxCells cells
MaxCells == 8

\* cfg['steps'] ranges over 5 .. MaxSteps
MaxSteps == 6

\* at most MaxCalls method calls are made on one System
MaxCalls == 3

\* cfg['epochs_init'], cfg['epochs_update'] and cfg['fade_out_epoch']
MaxEpochsInit == 2
MaxEpochsUpdate == 1
FadeOutEpoch == 1

\* cfg['fade_out_sharpness']
FadeOutSharpness == 2

\* save_step = 50 in learn_init
save_step == 50

-----------------------------------------------------------------------------
(* astar: src/quad_plot.py 626-680 *)

Cells(sh) == (0 .. sh[1] - 1) \X (0 .. sh[2] - 1) \X (0 .. sh[3] - 1)

\* grid shapes sx >= sy >= sz >= 1 with at most MaxCells cells
Shapes == { sh \in (1 .. MaxCells) \X (1 .. MaxCells) \X (1 .. MaxCells) :
              /\ sh[1] * sh[2] * sh[3] <= MaxCells
              /\ sh[1] >= sh[2]
              /\ sh[2] >= sh[3] }

\* heuristic(a, b) is the square root of this integer
Heuristic2(a, b) ==
    (b[1] - a[1]) * (b[1] - a[1]) + (b[2] - a[2]) * (b[2] - a[2]) + (b[3] - a[3]) * (b[3] - a[3])

inbounds(point) ==
    \A i \in 1 .. 3 : ~(point[i] < 0 \/ point[i] >= shape[i])

neighbors == << << 1, 0, 0>>, <<-1, 0, 0>>,
                << 0, 1, 0>>, << 0,-1, 0>>,
                << 0, 0, 1>>, << 0, 0,-1>> >>

\* g1 + sqrt(a) < g2 + sqrt(b), decided in integers.  The floating point
\* comparison of the code agrees with it on the grids explored: two such sums
\* are equal as reals only when they are computed from the same g and the same
\* radicand or from perfect squares, and then the floats are equal too.
FLess(g1, a, g2, b) ==
    LET k == g2 - g1 IN
    IF k >= 0
    THEN LET m == a - b - k * k IN
         IF m < 0 THEN TRUE ELSE m * m < 4 * k * k * b
    ELSE LET m == b - a - k * k IN
         IF m <= 0 THEN FALSE ELSE 4 * k * k * a < m * m

\* Python's order on tuples of ints
CellLess(c, d) ==
    \/ c[1] < d[1]
    \/ c[1] = d[1] /\ c[2] < d[2]
    \/ c[1] = d[1] /\ c[2] = d[2] /\ c[3] < d[3]

\* fscore = tentative_g_score + heuristic(neighbor, goal), as (g, radicand)
FscoreLess(e, o) ==
    FLess(e[1], Heuristic2(e[2], goal), o[1], Heuristic2(o[2], goal))

\* (fscore, cell) < (fscore', cell'): the order heapq pops by
NodeLess(e, o) ==
    \/ FscoreLess(e, o)
    \/ ~FscoreLess(o, e) /\ CellLess(e[2], o[2])

\* heappop taking the greatest entry, as a max-heap would
HeapMax(heap) == CHOOSE e \in heap : \A o \in heap \ {e} : NodeLess(o, e)

\* heapq.heappop(open_heap): the least entry
HeapMin(heap) == CHOOSE e \in heap : \A o \in heap \ {e} : NodeLess(e, o)

\* the dict d with d[k] = v
DictSet(d, k, v) == (k :> v) @@ d

\* the same pass with "tentative_g_score <= gscore.get(neighbor, inf)": a cell
\* is pushed again when its cost is only matched
RelaxOnEqual(st, current, idx) ==
    LET neighbor == << current[1] + neighbors[idx][1],
                       current[2] + neighbors[idx][2],
                       current[3] + neighbors[idx][3] >>
        tentative_g_score == st.g[current] + 1
    IN  IF ~inbounds(neighbor) THEN st
        ELSE IF neighbor \in occupied THEN st
        ELSE IF neighbor \notin DOMAIN st.g \/ tentative_g_score <= st.g[neighbor]
             THEN [ g    |-> DictSet(st.g, neighbor, tentative_g_score),
                    cf   |-> DictSet(st.cf, neighbor, current),
                    heap |-> st.heap \cup { <<tentative_g_score, neighbor>> } ]
             ELSE st

\* one pass of "for i, j, k in neighbors" for the idx-th neighbour;
\* st = [g |-> gscore, cf |-> came_from, heap |-> open_heap]
Relax(st, current, idx) ==
    LET neighbor == << current[1] + neighbors[idx][1],
                       current[2] + neighbors[idx][2],
                       current[3] + neighbors[idx][3] >>
        tentative_g_score == st.g[current] + 1
    IN  IF ~inbounds(neighbor) THEN st
        ELSE IF neighbor \in occupied THEN st
        ELSE IF neighbor \notin DOMAIN st.g \/ tentative_g_score < st.g[neighbor]
             THEN [ g    |-> DictSet(st.g, neighbor, tentative_g_score),
                    cf   |-> DictSet(st.cf, neighbor, current),
                    \* "if node not in open_heap: heappush": a set union
                    heap |-> st.heap \cup { <<tentative_g_score, neighbor>> } ]
             ELSE st

RECURSIVE Expand(_, _, _)
Expand(st, current, idx) ==
    IF idx > Len(neighbors) THEN st
    ELSE Expand(Relax(st, current, idx), current, idx + 1)

\* "while current in came_from: data.append(current); current = came_from[current]"
\* returns <<data, the cell the walk stops at>>
RECURSIVE Backtrack(_, _, _)
Backtrack(cf, current, data) ==
    IF current \in DOMAIN cf
    THEN Backtrack(cf, cf[current], Append(data, current))
    ELSE <<data, current>>

Reverse(s) == [ i \in 1 .. Len(s) |-> s[Len(s) + 1 - i] ]

EmptyDict == [ c \in {} |-> 0 ]

\* no System has been constructed
NoSystem ==
    /\ cfg = << >>
    /\ steps = 0
    /\ dt = 0
    /\ start_state = << >>
    /\ end_state = << >>
    /\ states = << >>
    /\ initial_accel = << >>
    /\ epoch = 0
    /\ files = << >>
    /\ pc = "none"
    /\ it = 0
    /\ calls = 0
    /\ last_call = << >>
    /\ raised = "none"
    /\ params0 = << >>

\* astar has not been called
NoAstar ==
    /\ shape = <<0, 0, 0>>
    /\ occupied = {}
    /\ start = << >>
    /\ goal = << >>
    /\ close_set = {}
    /\ came_from = << >>
    /\ gscore = << >>
    /\ open_heap = {}
    /\ apc = "off"
    /\ path = << >>

AstarInit ==
    /\ NoSystem
    /\ shape \in Shapes
    /\ occupied \in SUBSET Cells(shape)
    /\ start \in Cells(shape)
    /\ goal \in Cells(shape)
    /\ close_set = {}
    /\ came_from = EmptyDict
    /\ gscore = (start :> 0)
    /\ open_heap = { <<0, start>> }
    /\ apc = "search"
    /\ path = << >>

\* one iteration of "while open_heap" that pops the goal: the path is rebuilt
AstarReturn ==
    /\ apc = "search"
    /\ open_heap # {}
    /\ LET current == HeapMin(open_heap)[2]
           walk == Backtrack(came_from, current, << >>)
       IN  /\ current = goal
           /\ open_heap' = open_heap \ { HeapMin(open_heap) }
           /\ IF walk[2] = start
              THEN /\ path' = Reverse(Append(walk[1], walk[2]))
                   /\ apc' = "returned"
              ELSE /\ path' = path            \* assert current == start fails
                   /\ apc' = "assert"
    /\ UNCHANGED <<shape, occupied, start, goal, close_set, came_from, gscore>>
    /\ UNCHANGED sysVars

\* the dictionaries and the heap after the heappop and the "for i, j, k in
\* neighbors" loop of one pass of "while open_heap"
AfterPass ==
    LET node == HeapMin(open_heap)
    IN  Expand([ g |-> gscore, cf |-> came_from, heap |-> open_heap \ {node} ],
               node[2], 1)

\* one iteration of "while open_heap" that pops another cell and relaxes its neighbours
AstarExpand ==
    /\ apc = "search"
    /\ open_heap # {}
    /\ LET current == HeapMin(open_heap)[2]
           st == AfterPass
       IN  /\ current # goal
           /\ close_set' = close_set \cup {current}
           /\ gscore' = st.g
           /\ came_from' = st.cf
           /\ open_heap' = st.heap
    /\ UNCHANGED <<shape, occupied, start, goal, apc, path>>
    /\ UNCHANGED sysVars

\* the loop ends with the heap empty: raise ValueError("Failed to find path!")
AstarRaise ==
    /\ apc = "search"
    /\ open_heap = {}
    /\ apc' = "raised"
    /\ UNCHANGED <<shape, occupied, start, goal, close_set, came_from, gscore, open_heap, path>>
    /\ UNCHANGED sysVars

AstarNext == AstarReturn \/ AstarExpand \/ AstarRaise

SpecAstar == AstarInit /\ [][AstarNext]_vars

-----------------------------------------------------------------------------
(* Fixed point, vectors and rotations *)

RECURSIVE Gcd(_, _)
Gcd(a, b) == IF b = 0 THEN a ELSE Gcd(b, a % b)

\* the least common multiple of steps - 1 for steps in 5 .. n
RECURSIVE LcmTo(_)
LcmTo(n) == IF n < 5 THEN 1
            ELSE LET l == LcmTo(n - 1) IN (l * (n - 1)) \div Gcd(l, n - 1)

\* dt is 1 or 2, and the interpolation of __init__ divides by steps - 1
Scale == 4 * LcmTo(MaxSteps)

Abs(x) == IF x < 0 THEN -x ELSE x

VAdd(a, b) == << a[1] + b[1], a[2] + b[2], a[3] + b[3] >>
VSub(a, b) == << a[1] - b[1], a[2] - b[2], a[3] - b[3] >>
VTimes(v, k) == << v[1] * k, v[2] * k, v[3] * k >>
VOver(v, k) == << v[1] \div k, v[2] \div k, v[3] \div k >>

RECURSIVE IsqrtIn(_, _, _)
IsqrtIn(n, lo, hi) ==
    IF lo >= hi THEN lo
    ELSE LET mid == (lo + hi + 1) \div 2
         IN  IF mid * mid <= n THEN IsqrtIn(n, mid, hi) ELSE IsqrtIn(n, lo, mid - 1)

\* torch.norm(v, dim=-1); a vector along one axis has the norm |component|
Norm(v) ==
    IF Cardinality({ i \in 1 .. 3 : v[i] # 0 }) <= 1
    THEN Abs(v[1]) + Abs(v[2]) + Abs(v[3])
    ELSE LET n2 == v[1] * v[1] + v[2] * v[2] + v[3] * v[3]
         IN  IsqrtIn(n2, 0, IF n2 < 46340 THEN n2 ELSE 46340)

\* v / norm(v)
UnitOf(v) == VOver(v, Norm(v))

\* torch.cross(a, b, dim=-1)
Cross(a, b) == << a[2] * b[3] - a[3] * b[2],
                  a[3] * b[1] - a[1] * b[3],
                  a[1] * b[2] - a[2] * b[1] >>

\* A rotation matrix is the tuple of its rows; its entries here are -1, 0, 1
\* and are kept as they are (not in fixed point).
Eye3 == << <<1, 0, 0>>, <<0, 1, 0>>, <<0, 0, 1>> >>
MatVec(R, v) == << R[1][1] * v[1] + R[1][2] * v[2] + R[1][3] * v[3],
                   R[2][1] * v[1] + R[2][2] * v[2] + R[2][3] * v[3],
                   R[3][1] * v[1] + R[3][2] * v[2] + R[3][3] * v[3] >>
Transpose(R) == [ r \in 1 .. 3 |-> [ c \in 1 .. 3 |-> R[c][r] ] ]
MatMul(A, B) ==
    [ r \in 1 .. 3 |-> [ c \in 1 .. 3 |->
        A[r][1] * B[1][c] + A[r][2] * B[2][c] + A[r][3] * B[3][c] ] ]

\* cosine and sine of k quarter turns
Cos4(k) == << 1, 0, -1, 0 >>[(k % 4) + 1]
Sin4(k) == << 0, 1, 0, -1 >>[(k % 4) + 1]

\* vec_to_rot_matrix (quad_helpers), the exponential map: a rotation by |v|
\* about v / |v|; v = 0 gives the identity.  v lies along one axis.
VecToRotMatrix(v) ==
    LET kx == v[1] \div Scale  ky == v[2] \div Scale  kz == v[3] \div Scale
    IN  IF kx # 0
        THEN << <<1, 0, 0>>, <<0, Cos4(kx), -Sin4(kx)>>, <<0, Sin4(kx), Cos4(kx)>> >>
        ELSE IF ky # 0
        THEN << <<Cos4(ky), 0, Sin4(ky)>>, <<0, 1, 0>>, <<-Sin4(ky), 0, Cos4(ky)>> >>
        ELSE << <<Cos4(kz), -Sin4(kz), 0>>, <<Sin4(kz), Cos4(kz), 0>>, <<0, 0, 1>> >>

\* next_rotation (quad_helpers): the body angular velocity omega integrated
\* over one step of length h
next_rotation(R, omega, h) == MatMul(R, VecToRotMatrix(VTimes(omega, h)))

\* rot_matrix_to_vec, the logarithm map: trace, angle = acos_safe((trace - 1) / 2),
\* vec = skew part / (2 sin(angle + 1e-5)), result angle * vec.  On a rotation
\* by a half turn the skew part is zero and so is the result; the 1e-5 is dropped.
rot_matrix_to_vec(R) ==
    LET trace == R[1][1] + R[2][2] + R[3][3]
        skew  == << R[3][2] - R[2][3], R[1][3] - R[3][1], R[2][1] - R[1][2] >>
        angle == IF trace = 3 THEN 0 ELSE IF trace = 1 THEN Scale ELSE 2 * Scale
    IN  IF skew = <<0, 0, 0>> THEN <<0, 0, 0>>
        ELSE VTimes(VOver(skew, 2), angle)

\* torch.atan2(y, x) in quarter turns, for x, y in {-1, 0, 1}, one of them 0
Atan2(y, x) ==
    IF y = 0 THEN (IF x < 0 THEN 2 * Scale ELSE 0)
    ELSE IF y > 0 THEN Scale ELSE -Scale

-----------------------------------------------------------------------------
(* System: src/quad_plot.py 50-465 *)

mass == 1
J == Eye3
g == <<0, 0, -10 * Scale>>

full_to_reduced_state(state) ==
    LET xy == MatVec(state.R, <<1, 0, 0>>)
        angle == Atan2(xy[2], xy[1])
    IN  << state.pos[1], state.pos[2], state.pos[3], angle >>

\* slider = linspace(0, 1, steps)[1:-1]; (1 - slider) * a + slider * b
Interpolate(a, b, n) ==
    [ i \in 1 .. n - 2 |->
        [ c \in 1 .. 4 |-> ((n - 1 - i) * a[c] + i * b[c]) \div (n - 1) ] ]

RowPos(row) == << row[1], row[2], row[3] >>

\* start_pos - start_v * dt, the sign of last_pos taken for next_pos
NextPosBackwards(p, v, h) == VSub(p, VTimes(v, h))

\* start_pos + start_v * dt
NextPos(p, v, h) == VAdd(p, VTimes(v, h))

\* end_pos - end_v * dt
LastPos(p, v, h) == VSub(p, VTimes(v, h))

\* torch.cat([start_pos, next_pos, self.states[:, :3], last_pos, end_pos]):
\* every free row placed right after next_pos
CurrentPosAllRows(start_pos, next_pos, after_next_pos, after2_next_pos, st, last_pos, end_pos) ==
    << start_pos, next_pos >>
    \o [ i \in 1 .. Len(st) |-> RowPos(st[i]) ]
    \o << last_pos, end_pos >>

\* torch.cat([start_pos, next_pos, after_next_pos, after2_next_pos,
\*            self.states[2:, :3], last_pos, end_pos])
CurrentPos(start_pos, next_pos, after_next_pos, after2_next_pos, st, last_pos, end_pos) ==
    << start_pos, next_pos, after_next_pos, after2_next_pos >>
    \o [ i \in 1 .. (IF Len(st) > 2 THEN Len(st) - 2 ELSE 0) |-> RowPos(st[i + 2]) ]
    \o << last_pos, end_pos >>

\* (x[1:] - x[:-1]) / dt
Differences(x, h) == [ i \in 1 .. Len(x) - 1 |-> VOver(VSub(x[i + 1], x[i]), h) ]

\* the rotation whose body z axis is z and whose heading is angle
\* (lines 162-170)
InteriorRotation(z, angle) ==
    LET k == angle \div Scale
        in_plane_heading == << Sin4(k), -Cos4(k), 0 >>
        x_axis_body == UnitOf(Cross(z, in_plane_heading))
        y_axis_body == Cross(z, x_axis_body)
    IN  [ r \in 1 .. 3 |-> << x_axis_body[r], y_axis_body[r], z[r] >> ]

\* torch.cross of the sliced z axes with the headings raises when the two
\* row counts differ, unless one of them is 1 (broadcast).  There are always
\* at least two z axes.
CalcRaises(st) == Len(st) = 0

\* actions[0:2, 0], the slice taken one place early
ReseedAccelFirstTwo(actions) == << actions[1][1], actions[2][1] >>

\* actions[1:3, 0]
ReseedAccel(actions) == << actions[2][1], actions[3][1] >>

calc_everything(ss, es, st, ia, h) ==
    LET start_pos == ss.pos  start_v == ss.vel  start_R == ss.R  start_omega == ss.omega
        end_pos == es.pos    end_v == es.vel    end_R == es.R    end_omega == es.omega
        next_pos == NextPos(start_pos, start_v, h)
        last_pos == LastPos(end_pos, end_v, h)
        next_R == next_rotation(start_R, start_omega, h)
        start_accel == VAdd(VTimes(MatVec(start_R, <<0, 0, 1>>), ia[1]), g)
        next_accel  == VAdd(VTimes(MatVec(next_R, <<0, 0, 1>>), ia[2]), g)
        next_vel == VAdd(start_v, VTimes(start_accel, h))
        after_next_pos == VAdd(next_pos, VTimes(next_vel, h))
        after_next_vel == VAdd(next_vel, VTimes(next_accel, h))
        after2_next_pos == VAdd(after_next_pos, VTimes(after_next_vel, h))
        current_pos == CurrentPos(start_pos, next_pos, after_next_pos, after2_next_pos,
                                  st, last_pos, end_pos)
        n == Len(current_pos)
        current_vel == Append(Differences(current_pos, h), end_v)
        accel0 == [ i \in 1 .. n - 1 |-> VSub(Differences(current_vel, h)[i], g) ]
        current_accel == Append(accel0, accel0[n - 1])
        accel_mag == [ i \in 1 .. n |-> Norm(current_accel[i]) ]
        \* z_axis_body[2:-2]
        z_axis_body == [ i \in 1 .. n - 4 |-> UnitOf(current_accel[i + 2]) ]
        z_angle == [ i \in 1 .. Len(st) |-> st[i][4] ]
        interior == [ i \in 1 .. n - 4 |->
                        InteriorRotation(z_axis_body[i],
                                         z_angle[IF Len(st) = 1 THEN 1 ELSE i]) ]
        last_R == next_rotation(end_R, end_omega, -h)
        rot_matrix == << start_R, next_R >> \o interior \o << last_R, end_R >>
        omega0 == [ i \in 1 .. n - 1 |->
                      VOver(rot_matrix_to_vec(MatMul(rot_matrix[i + 1],
                                                     Transpose(rot_matrix[i]))), h) ]
        current_omega == Append(omega0, end_omega)
        aa0 == Differences(current_omega, h)
        angular_accel == Append(aa0, aa0[n - 1])
        torques == [ i \in 1 .. n |-> MatVec(J, angular_accel[i]) ]
        actions == [ i \in 1 .. n |->
                       << accel_mag[i] * mass, torques[i][1], torques[i][2], torques[i][3] >> ]
    IN  [ pos |-> current_pos, vel |-> current_vel, accel |-> current_accel,
          rot_matrix |-> rot_matrix, omega |-> current_omega,
          angular_accel |-> angular_accel, actions |-> actions ]

\* get_full_states: torch.cat([pos, vel, rot_matrix.reshape(-1, 9), omega], dim=-1)
get_full_states(c) ==
    [ i \in 1 .. Len(c.pos) |->
        [ pos |-> c.pos[i], vel |-> c.vel[i], R |-> c.rot_matrix[i], omega |-> c.omega[i] ] ]

\* torch.sigmoid gives a real in (0, 1); it is kept in units of 1 / Unit
Unit == 10000

\* the Taylor series of e^(num/den) for num/den >= 0, in units of 1 / Unit:
\* term is the k-th term, acc the sum of the terms before it
RECURSIVE ExpSeries(_, _, _, _, _)
ExpSeries(num, den, k, term, acc) ==
    IF term = 0 THEN acc
    ELSE ExpSeries(num, den, k + 1, (term * num) \div (den * (k + 1)), acc + term)

\* torch.sigmoid(num/den) = 1 / (1 + e^(-num/den)), den > 0
Sigmoid(num, den) ==
    LET below == (Unit * Unit) \div (Unit + ExpSeries(Abs(num), den, 0, Unit, 0))
    IN  IF num <= 0 THEN below ELSE Unit - below

\* get_state_cost, the factor colision_prob is multiplied by, for n states:
\*   if self.epoch < self.fade_out_epoch:
\*       t = torch.linspace(0, 1, n); position = self.epoch/self.fade_out_epoch
\*       mask = torch.sigmoid(self.fade_out_sharpness * (position - t))
\* and no factor, that is 1, otherwise
FadeMask(ep, fade_out_epoch, fade_out_sharpness, n) ==
    [ i \in 1 .. n |->
        IF ep < fade_out_epoch
        THEN Sigmoid(fade_out_sharpness * (ep * (n - 1) - fade_out_epoch * (i - 1)),
                     fade_out_epoch * (n - 1))
        ELSE Unit ]

-----------------------------------------------------------------------------
(* The inputs explored *)

FlipX == << <<1, 0, 0>>, <<0, -1, 0>>, <<0, 0, -1>> >>

FullState(pz, vz, R, wz) ==
    [ pos |-> <<0, 0, pz * Scale>>, vel |-> <<0, 0, vz * Scale>>,
      R |-> R, omega |-> <<0, 0, wz * Scale>> ]

StartStates == { FullState(0, 0, Eye3, 0), FullState(1, 1, FlipX, 1) }
EndStates == { FullState(2, 0, Eye3, 0), FullState(1, -1, Eye3, 1) }
MeasuredStates == { FullState(1, -1, FlipX, 1) }

\* the values a free row takes: height 0 with a quarter turn of heading, or
\* height 1 with heading 0
RowChoices == { <<0, 0, 0, Scale>>, <<0, 0, Scale, 0>> }

\* cfg: T_final makes dt one of dts
Configs(dts) ==
    { [ T_final |-> d * n, steps |-> n, epochs_init |-> MaxEpochsInit,
        epochs_update |-> MaxEpochsUpdate, fade_out_epoch |-> FadeOutEpoch,
        fade_out_sharpness |-> FadeOutSharpness ] :
      d \in dts, n \in 5 .. MaxSteps }

\* the file save_progress and load_progress are given, and the file
\* learn_init passes to save_poses at iteration i
ProgressFile == <<"quad_cylinder_train.pt", 0>>
PosesFile(i) == <<"paths/_testing.json", i \div save_step>>
FileNames == { ProgressFile } \cup { PosesFile(i) : i \in 0 .. MaxEpochsInit }

Absent == [ kind |-> "absent" ]
\* opened for writing and truncated, not yet completely written
Partial == [ kind |-> "partial" ]
PoseList(c) == [ kind |-> "poses",
                 data |-> [ i \in 1 .. Len(c.pos) |-> <<c.rot_matrix[i], c.pos[i]>> ] ]
Tensor(st) == [ kind |-> "tensor", data |-> st ]

-----------------------------------------------------------------------------
(* System.__init__ *)

\* __init__(renderer, start_state, end_state, cfg), with the progress file
\* holding ckpt
Construct(c, ss, es, ckpt) ==
    /\ cfg = c
    /\ steps = c.steps
    /\ dt = c.T_final \div c.steps
    /\ start_state = ss
    /\ end_state = es
    /\ states = Interpolate(full_to_reduced_state(ss), full_to_reduced_state(es), c.steps)
    /\ initial_accel = << 10 * Scale, 10 * Scale >>
    /\ epoch = 0
    /\ files = [ f \in FileNames |-> IF f = ProgressFile THEN ckpt ELSE Absent ]
    /\ pc = "idle"
    /\ it = 0
    /\ calls = 0
    /\ last_call = [ op |-> "__init__", arg |-> << >>, stopped |-> FALSE ]
    /\ raised = "none"
    /\ params0 = [ states |-> states, initial_accel |-> initial_accel ]

Call(op, arg) == [ op |-> op, arg |-> arg, stopped |-> FALSE ]

Calc == calc_everything(start_state, end_state, states, initial_accel, dt)

\* the factors get_state_cost multiplies the collision cost by in this state
Mask == FadeMask(epoch, cfg.fade_out_epoch, cfg.fade_out_sharpness, Len(Calc.pos))

-----------------------------------------------------------------------------
(* update_state, save_progress, load_progress *)

\* update_state(measured_state); calc_everything raising leaves the object as it was
update_state(measured_state) ==
    /\ pc = "idle"
    /\ calls < MaxCalls
    /\ calls' = calls + 1
    /\ last_call' = Call("update_state", measured_state)
    /\ IF CalcRaises(states)
       THEN /\ raised' = "RuntimeError"
            /\ UNCHANGED <<start_state, states, initial_accel>>
       ELSE /\ raised' = "none"
            /\ start_state' = measured_state
            /\ states' = Tail(states)
            /\ initial_accel' = ReseedAccel(Calc.actions)
    /\ UNCHANGED <<cfg, steps, dt, end_state, epoch, files, pc, it, params0>>
    /\ UNCHANGED astarVars

\* save_progress(filename): os.remove(filename) raises when there is no such file
SaveProgressNoFile ==
    /\ pc = "idle"
    /\ calls < MaxCalls
    /\ calls' = calls + 1
    /\ files[ProgressFile] = Absent
    /\ last_call' = Call("save_progress", ProgressFile)
    /\ raised' = "FileNotFoundError"
    /\ UNCHANGED <<cfg, steps, dt, start_state, end_state, states, initial_accel, epoch,
                   files, pc, it, params0>>
    /\ UNCHANGED astarVars

\* os.remove(filename); torch.save(self.states, filename)
SaveProgressWritten ==
    /\ pc = "idle"
    /\ calls < MaxCalls
    /\ calls' = calls + 1
    /\ files[ProgressFile] # Absent
    /\ last_call' = Call("save_progress", ProgressFile)
    /\ raised' = "none"
    /\ files' = [ files EXCEPT ![ProgressFile] = Tensor(states) ]
    /\ UNCHANGED <<cfg, steps, dt, start_state, end_state, states, initial_accel, epoch,
                   pc, it, params0>>
    /\ UNCHANGED astarVars

\* os.remove(filename); torch.save raises (the disk is full, say) after the
\* file was removed, leaving no file or a partly written one
SaveProgressFails ==
    /\ pc = "idle"
    /\ calls < MaxCalls
    /\ calls' = calls + 1
    /\ files[ProgressFile] # Absent
    /\ last_call' = Call("save_progress", ProgressFile)
    /\ raised' = "OSError"
    /\ \E left \in { Absent, Partial } :
          files' = [ files EXCEPT ![ProgressFile] = left ]
    /\ UNCHANGED <<cfg, steps, dt, start_state, end_state, states, initial_accel, epoch,
                   pc, it, params0>>
    /\ UNCHANGED astarVars

\* load_progress(filename): self.states = torch.load(filename)
load_progress ==
    /\ pc = "idle"
    /\ calls < MaxCalls
    /\ calls' = calls + 1
    /\ last_call' = Call("load_progress", ProgressFile)
    /\ IF files[ProgressFile].kind = "tensor"
       THEN /\ states' = files[ProgressFile].data
            /\ raised' = "none"
       ELSE /\ states' = states
            /\ raised' = IF files[ProgressFile] = Absent
                         THEN "FileNotFoundError" ELSE "UnpicklingError"
    /\ UNCHANGED <<cfg, steps, dt, start_state, end_state, initial_accel, epoch,
                   files, pc, it, params0>>
    /\ UNCHANGED astarVars

-----------------------------------------------------------------------------
(* learn_init, learn_update, save_poses *)

\* the value opt.step() moves the last free row and initial_accel to, when it
\* moves them
OptRow == << 0, 0, Scale, Scale >>
OptAccel == << 12 * Scale, 8 * Scale >>
\* initial_accel is an unconstrained parameter: a step of size lr against the
\* gradient's sign takes an entry from 10.0 to below zero when lr is above 10
OptAccelBelowZero == << -2 * Scale, 8 * Scale >>

\* opt.step(): Adam leaves the parameters where they are (moved = 0, a zero
\* gradient) or moves them (moved = 1), possibly across zero (moved = 2)
OptStep(moved) ==
    /\ states' = IF moved = 0 \/ Len(states) = 0 THEN states
                 ELSE [ states EXCEPT ![Len(states)] = OptRow ]
    /\ initial_accel' = CASE moved = 0 -> initial_accel
                           [] moved = 1 -> OptAccel
                           [] OTHER     -> OptAccelBelowZero

\* the end of one pass of "for it in range(limit)"
NextIteration(limit, cost) ==
    IF it + 1 < limit
    THEN /\ it' = it + 1
         /\ pc' = cost
    ELSE /\ it' = it
         /\ pc' = "idle"

\* learn_init(): opt = torch.optim.Adam(self.params(), lr=self.lr), then the loop
learn_init ==
    /\ pc = "idle"
    /\ calls < MaxCalls
    /\ calls' = calls + 1
    /\ last_call' = Call("learn_init", << >>)
    /\ raised' = "none"
    /\ it' = 0
    /\ pc' = IF cfg.epochs_init > 0 THEN "init_cost" ELSE "idle"
    /\ UNCHANGED <<cfg, steps, dt, start_state, end_state, states, initial_accel, epoch,
                   files, params0>>
    /\ UNCHANGED astarVars

\* opt.zero_grad(); self.epoch = it; loss = self.total_cost(); loss.backward()
\* total_cost calls calc_everything, whose exception is not caught
InitCost ==
    /\ pc = "init_cost"
    /\ epoch' = it
    /\ IF CalcRaises(states)
       THEN /\ raised' = "RuntimeError"
            /\ pc' = "idle"
       ELSE /\ raised' = raised
            /\ pc' = "init_step"
    /\ UNCHANGED <<cfg, steps, dt, start_state, end_state, states, initial_accel,
                   files, it, calls, last_call, params0>>
    /\ UNCHANGED astarVars

\* opt.step(); "if it%save_step == 0" decides whether save_poses is called
InitStep ==
    /\ pc = "init_step"
    /\ \E moved \in 0 .. 2 : OptStep(moved)
    /\ IF it % save_step = 0
       THEN /\ pc' = "init_save"
            /\ it' = it
       ELSE NextIteration(cfg.epochs_init, "init_cost")
    /\ UNCHANGED <<cfg, steps, dt, start_state, end_state, epoch, files, calls,
                   last_call, raised, params0>>
    /\ UNCHANGED astarVars

\* save_poses: positions, rot_matrix = calc_everything(); open(filename, "w+")
\* creates the file or truncates it
SavePosesOpen ==
    /\ pc = "init_save"
    /\ files' = [ files EXCEPT ![PosesFile(it)] = Partial ]
    /\ pc' = "init_dump"
    /\ UNCHANGED <<cfg, steps, dt, start_state, end_state, states, initial_accel, epoch,
                   it, calls, last_call, raised, params0>>
    /\ UNCHANGED astarVars

\* save_poses: the poses are collected, json.dump writes them, the file is closed
SavePosesDump ==
    /\ pc = "init_dump"
    /\ files' = [ files EXCEPT ![PosesFile(it)] = PoseList(Calc) ]
    /\ NextIteration(cfg.epochs_init, "init_cost")
    /\ UNCHANGED <<cfg, steps, dt, start_state, end_state, states, initial_accel, epoch,
                   calls, last_call, raised, params0>>
    /\ UNCHANGED astarVars

\* save_poses raises: open fails and the file is as it was, or the file was
\* opened and the write fails.  The except clause of learn_init does not catch it.
SavePosesFails ==
    /\ pc = "init_save"
    /\ \E left \in { files[PosesFile(it)], Partial } :
          files' = [ files EXCEPT ![PosesFile(it)] = left ]
    /\ raised' = "OSError"
    /\ pc' = "idle"
    /\ UNCHANGED <<cfg, steps, dt, start_state, end_state, states, initial_accel, epoch,
                   it, calls, last_call, params0>>
    /\ UNCHANGED astarVars

\* KeyboardInterrupt anywhere inside the try block of learn_init:
\* "except KeyboardInterrupt: print("finishing early")"; learn_init returns
InitInterrupted ==
    /\ pc \in { "init_cost", "init_step", "init_save", "init_dump" }
    /\ pc' = "idle"
    /\ raised' = "none"
    /\ last_call' = [ last_call EXCEPT !.stopped = TRUE ]
    /\ UNCHANGED <<cfg, steps, dt, start_state, end_state, states, initial_accel, epoch,
                   files, it, calls, params0>>
    /\ UNCHANGED astarVars

\* learn_update(): a new Adam, then the loop; there is no try block
learn_update ==
    /\ pc = "idle"
    /\ calls < MaxCalls
    /\ calls' = calls + 1
    /\ last_call' = Call("learn_update", << >>)
    /\ raised' = "none"
    /\ it' = 0
    /\ pc' = IF cfg.epochs_update > 0 THEN "update_cost" ELSE "idle"
    /\ UNCHANGED <<cfg, steps, dt, start_state, end_state, states, initial_accel, epoch,
                   files, params0>>
    /\ UNCHANGED astarVars

UpdateCost ==
    /\ pc = "update_cost"
    /\ epoch' = it
    /\ IF CalcRaises(states)
       THEN /\ raised' = "RuntimeError"
            /\ pc' = "idle"
       ELSE /\ raised' = raised
            /\ pc' = "update_step"
    /\ UNCHANGED <<cfg, steps, dt, start_state, end_state, states, initial_accel,
                   files, it, calls, last_call, params0>>
    /\ UNCHANGED astarVars

UpdateStep ==
    /\ pc = "update_step"
    /\ \E moved \in 0 .. 2 : OptStep(moved)
    /\ NextIteration(cfg.epochs_update, "update_cost")
    /\ UNCHANGED <<cfg, steps, dt, start_state, end_state, epoch, files, calls,
                   last_call, raised, params0>>
    /\ UNCHANGED astarVars

\* KeyboardInterrupt inside learn_update leaves it as an exception
UpdateInterrupted ==
    /\ pc \in { "update_cost", "update_step" }
    /\ pc' = "idle"
    /\ raised' = "KeyboardInterrupt"
    /\ last_call' = [ last_call EXCEPT !.stopped = TRUE ]
    /\ UNCHANGED <<cfg, steps, dt, start_state, end_state, states, initial_accel, epoch,
                   files, it, calls, params0>>
    /\ UNCHANGED astarVars

-----------------------------------------------------------------------------
(* The specifications of System *)

\* every tensor of n rows of RowChoices, and of one row: what save_progress
\* left before the horizon was shifted, or after it was shifted to its last row
Checkpoints(n) == { Tensor(st) : st \in [ 1 .. n -> RowChoices ] \cup [ 1 .. 1 -> RowChoices ] }

\* the reconstruction and the receding horizon on their own: any checkpoint may
\* be loaded and the horizon shifted
CalcInit ==
    /\ NoAstar
    /\ \E c \in Configs({1, 2}), ss \in StartStates, es \in EndStates :
         \E ckpt \in Checkpoints(c.steps - 2) : Construct(c, ss, es, ckpt)

CalcNext ==
    \/ \E m \in MeasuredStates : update_state(m)
    \/ load_progress

SpecCalc == CalcInit /\ [][CalcNext]_vars

\* the receding horizon alone: update_state called again and again
UpdateNext == \E m \in MeasuredStates : update_state(m)

SpecUpdate == CalcInit /\ [][UpdateNext]_vars

\* the life of one System: the progress file is absent or holds a tensor
Init ==
    /\ NoAstar
    /\ \E c \in Configs({1}) :
         \E ckpt \in { Absent, Tensor([ i \in 1 .. c.steps - 2 |-> OptRow ]) } :
            Construct(c, FullState(0, 0, Eye3, 0), FullState(2, 0, Eye3, 0), ckpt)

Next ==
    \/ learn_init
    \/ InitCost
    \/ InitStep
    \/ SavePosesOpen
    \/ SavePosesDump
    \/ SavePosesFails
    \/ InitInterrupted
    \/ learn_update
    \/ UpdateCost
    \/ UpdateStep
    \/ UpdateInterrupted
    \/ \E m \in MeasuredStates : update_state(m)
    \/ SaveProgressNoFile
    \/ SaveProgressWritten
    \/ SaveProgressFails
    \/ load_progress

Spec == Init /\ [][Next]_vars

-----------------------------------------------------------------------------
(* Claims about astar *)

Adjacent(c, d) ==
    LET dx == c[1] - d[1]  dy == c[2] - d[2]  dz == c[3] - d[3]
    IN  dx * dx + dy * dy + dz * dz = 1

\* breadth-first search: the least number of 6-connected unit moves from a
\* cell of frontier to goal, every cell moved into being inside the grid and
\* unoccupied; -1 when there is none
RECURSIVE MovesToGoal(_, _, _)
MovesToGoal(frontier, seen, d) ==
    IF goal \in frontier THEN d
    ELSE LET nxt == { n \in Cells(shape) \ (seen \cup occupied) :
                        \E c \in frontier : Adjacent(c, n) }
         IN  IF nxt = {} THEN -1 ELSE MovesToGoal(nxt, seen \cup nxt, d + 1)

MinMoves == MovesToGoal({start}, {start}, 0)

\* start and goal are joined by unit moves through unoccupied cells, start and
\* goal themselves counted
Connected == start \notin occupied /\ goal \notin occupied /\ MinMoves >= 0

\* C1: whenever astar returns, the returned sequence starts at start, ends at
\* goal, moves by one unit step along one axis at a time, and every one of its
\* cells is inside the grid and not occupied.
C1_ReturnedPathValid ==
    apc = "returned" =>
        /\ Len(path) >= 1
        /\ path[1] = start
        /\ path[Len(path)] = goal
        /\ \A i \in 1 .. Len(path) - 1 : Adjacent(path[i], path[i + 1])
        /\ \A i \in 1 .. Len(path) : inbounds(path[i]) /\ path[i] \notin occupied

\* C2: astar raises exactly when start and goal are not connected through
\* unoccupied cells (start and goal counted), and returns a path otherwise.
C2_RaisesIffDisconnected ==
    /\ apc = "raised" => ~Connected
    /\ apc = "returned" => Connected

\* C3: a returned path is a shortest one: its number of moves is the least
\* number of unit moves into unoccupied cells that lead from start to goal; on
\* the open grid from (0,0,0) to (3,0,0) it has 4 cells, that is 3 moves.
C3_ReturnedPathShortest ==
    apc = "returned" =>
        /\ Len(path) - 1 = MinMoves
        /\ (occupied = {} /\ start = <<0, 0, 0>> /\ goal = <<3, 0, 0>>) => Len(path) = 4

Manhattan(c, d) ==
    Abs(c[1] - d[1]) + Abs(c[2] - d[2]) + Abs(c[3] - d[3])

\* a path was returned that had to go around occupied cells
C3_Witness ==
    /\ apc = "returned"
    /\ start \notin occupied
    /\ Len(path) - 1 > Manhattan(start, goal)

\* the best-known cost of cell c in the dictionary gs, or the number of cells
\* when it has none yet (a cost is a number of moves, less than that)
KnownCost(gs, c) ==
    IF c \in DOMAIN gs THEN gs[c] ELSE Cardinality(Cells(shape))

RECURSIVE SumKnownCost(_, _)
SumKnownCost(gs, S) ==
    IF S = {} THEN 0
    ELSE LET c == CHOOSE x \in S : TRUE
         IN  KnownCost(gs, c) + SumKnownCost(gs, S \ {c})

\* what is left to do with costs gs and heap h: a push lowers a best-known cost
\* and adds at most one entry, a pop takes one entry away
WorkLeft(gs, h) == 2 * SumKnownCost(gs, Cells(shape)) + Cardinality(h)

\* C12: astar terminates: every pass of "while open_heap" lowers a natural
\* number, because a cell is pushed only when its best-known cost strictly
\* decreases; so there are finitely many passes, although the closed set is
\* never consulted.
C12_AstarTerminates ==
    (apc = "search" /\ open_heap # {}) =>
        LET st == AfterPass
            left == WorkLeft(st.g, st.heap)
        IN  left < WorkLeft(gscore, open_heap) /\ left >= 0

\* astar has stopped after four passes or more
C12_Witness ==
    /\ apc \in { "returned", "raised" }
    /\ Cardinality(close_set) >= 4

-----------------------------------------------------------------------------
(* Claims about calc_everything and update_state *)

\* C4: for a System constructed with steps >= 5, each of the seven sequences
\* calc_everything returns (position, velocity, acceleration, rotation, angular
\* velocity, angular acceleration, action) has exactly steps entries.  Stated
\* of a System whose free rows are as many as __init__ made them.
C4_SequencesHaveStepsEntries ==
    Len(states) = steps - 2 =>
        LET c == Calc
        IN  /\ Len(c.pos) = steps
            /\ Len(c.vel) = steps
            /\ Len(c.accel) = steps
            /\ Len(c.rot_matrix) = steps
            /\ Len(c.omega) = steps
            /\ Len(c.angular_accel) = steps
            /\ Len(c.actions) = steps

\* the full states at the first two and the last two indices
BoundaryStates(c) ==
    LET f == get_full_states(c)
        n == Len(f)
    IN  << f[1], f[2], f[n - 1], f[n] >>

\* the same without the angular velocity at index 1
BoundaryStatesButOmega1(c) ==
    LET f == get_full_states(c)
        n == Len(f)
    IN  << f[1], << f[2].pos, f[2].vel, f[2].R >>, f[n - 1], f[n] >>

\* other values of the free rows: those __init__ interpolated and those the
\* progress file holds
OtherFreeStates ==
    { params0.states } \cup
    ( IF files[ProgressFile].kind = "tensor" THEN { files[ProgressFile].data } ELSE {} )

\* the reconstruction with the free rows replaced by st and nothing else changed
CalcWith(st) == calc_everything(start_state, end_state, st, initial_accel, dt)

\* C5 as the spec has it: the full state (position, velocity, rotation and
\* angular velocity) at the first two and at the last two indices of the
\* reconstructed trajectory stays the same when the free rows are replaced by
\* other ones and start_state, end_state and initial_accel are kept.
C5_BoundaryStatesIgnoreFreeStates ==
    ~CalcRaises(states) =>
        \A st \in OtherFreeStates :
            BoundaryStates(CalcWith(st)) = BoundaryStates(Calc)

\* C5, amended: position, velocity and rotation at the first two and at the
\* last two indices, and the angular velocity at index 0 and at the last two
\* indices, stay the same when the free rows are replaced by other ones and
\* start_state, end_state and initial_accel are kept; the angular velocity at
\* index 1 is left out, being the difference of the rotations at indices 1 and 2.
C5_BoundaryStatesButOmega1IgnoreFreeStates ==
    ~CalcRaises(states) =>
        \A st \in OtherFreeStates :
            BoundaryStatesButOmega1(CalcWith(st)) = BoundaryStatesButOmega1(Calc)

\* load_progress replaced the interpolated rows of a new System, and the
\* angular velocity at index 1 is not what it was
C5_Witness ==
    /\ calls = 1
    /\ last_call.op = "load_progress"
    /\ raised = "none"
    /\ states # params0.states
    /\ Calc.omega[2] # CalcWith(params0.states).omega[2]

\* C6: whenever calc_everything returns, position and velocity at index 0 are
\* start_state's position and velocity, and position and velocity at the final
\* index are end_state's.
C6_EndpointsAreBoundaryStates ==
    ~CalcRaises(states) =>
        LET c == Calc
            n == Len(c.pos)
        IN  /\ Len(c.vel) = n
            /\ c.pos[1] = start_state.pos
            /\ c.vel[1] = start_state.vel
            /\ c.pos[n] = end_state.pos
            /\ c.vel[n] = end_state.vel

\* the horizon was shifted, the System moves at both ends and dt is not 1
C6_Witness ==
    /\ last_call.op = "update_state"
    /\ raised = "none"
    /\ ~CalcRaises(states)
    /\ dt = 2
    /\ start_state.vel # <<0, 0, 0>>
    /\ end_state.vel # <<0, 0, 0>>

\* a step that is a call of update_state which returns
UpdateStateReturns ==
    /\ calls' = calls + 1
    /\ last_call'.op = "update_state"
    /\ raised' = "none"

\* C7: a call update_state(measured_state) that returns makes start_state the
\* measured state, drops the first free row and keeps the others in order,
\* makes initial_accel the thrusts at indices 1 and 2 of the actions
\* reconstructed before the call, and leaves end_state, dt, steps and the
\* configuration alone.
C7_UpdateStateEffect ==
    [][ UpdateStateReturns =>
          /\ start_state' = last_call'.arg
          /\ Len(states') = Len(states) - 1
          /\ \A i \in 1 .. Len(states') : states'[i] = states[i + 1]
          /\ initial_accel' = << Calc.actions[2][1], Calc.actions[3][1] >>
          /\ end_state' = end_state
          /\ dt' = dt
          /\ steps' = steps
          /\ cfg' = cfg ]_vars

\* update_state has returned twice, the second time leaving a row, and the
\* reseeded initial_accel has two different entries, neither the one of __init__
C7_Witness ==
    /\ calls = 2
    /\ last_call.op = "update_state"
    /\ raised = "none"
    /\ Len(states) >= 1
    /\ start_state \in MeasuredStates
    /\ initial_accel[1] # initial_accel[2]
    /\ initial_accel[1] # params0.initial_accel[1]

-----------------------------------------------------------------------------
(* Claims about learn_init, learn_update and the checkpoint files *)

\* C8: at the first iteration of every learn_init call the free parameters
\* are the interpolated rows and the seed initial_accel that __init__ set,
\* whatever was called before.
C8_LearnInitStartsFromInitialParameters ==
    (pc = "init_cost" /\ it = 0) =>
        /\ states = params0.states
        /\ initial_accel = params0.initial_accel

\* the files save_poses writes
PoseFiles == FileNames \ { ProgressFile }

\* C9: after a run of learn_init or learn_update was stopped by an interrupt,
\* every pose file that exists holds a completely written pose list.
C9_StopLeavesNoPartialCheckpoint ==
    (pc = "idle" /\ last_call.stopped) =>
        \A f \in PoseFiles : files[f] = Absent \/ files[f].kind = "poses"

\* a step in which a checkpoint write fails: save_progress or save_poses
\* raising OSError
CheckpointWriteFails ==
    /\ raised' = "OSError"
    /\ \/ pc = "init_save"
       \/ pc = "idle" /\ calls' = calls + 1 /\ last_call'.op = "save_progress"

\* C10: a checkpoint write that fails leaves every file with the content it
\* had before the write began.
C10_FailedWriteKeepsPriorContent ==
    [][ CheckpointWriteFails => files' = files ]_vars

-----------------------------------------------------------------------------
(* Claims about the fade-in of the collision cost *)

\* a cost evaluation has just been made: total_cost returned inside the loop
CostEvaluated == pc \in { "init_step", "update_step" }

\* the factor of the last step is 0 in a cost evaluation with epoch = 0
ZeroAtLastStepAtEpochZero ==
    (CostEvaluated /\ epoch = 0 /\ epoch < cfg.fade_out_epoch) => Mask[Len(Mask)] = 0

\* in the last iteration before fade_out_epoch the factor of every step, the
\* last one too, is nearer to 1 than to 0
NearOneBeforeFadeOutEpoch ==
    (CostEvaluated /\ epoch = cfg.fade_out_epoch - 1) =>
        \A i \in 1 .. Len(Mask) : 2 * Mask[i] > Unit

\* from fade_out_epoch on the factor of every step is 1
OneFromFadeOutEpoch ==
    (CostEvaluated /\ epoch >= cfg.fade_out_epoch) =>
        \A i \in 1 .. Len(Mask) : Mask[i] = Unit

\* C11: in every cost evaluation the factor of the collision cost is 0 for the
\* last step when epoch = 0; it approaches 1 for every step, the last one
\* too, as epoch approaches fade_out_epoch (taken as: nearer to 1 than to 0 in
\* the last iteration before fade_out_epoch); and it is 1 for every step when
\* epoch >= fade_out_epoch.
C11_FadeInMultiplier ==
    /\ ZeroAtLastStepAtEpochZero
    /\ NearOneBeforeFadeOutEpoch
    /\ OneFromFadeOutEpoch


\* get_state_cost takes the branch "if self.epoch < self.fade_out_epoch" and
\* scales the collision cost by the mask
FadeInApplied == epoch < cfg.fade_out_epoch

\* a cost evaluation of learn_update: self.epoch = it; loss = self.total_cost()
UpdateCostEvaluated == pc = "update_cost" /\ pc' = "update_step"

\* C15: over a run of learn_init followed by update_state / learn_update
\* cycles, the fade-in is applied only in the first fade_out_epoch iterations:
\* once a cost evaluation has used the collision cost unscaled
\* (epoch >= fade_out_epoch), no later cost evaluation scales it by the mask.
\* epoch is written by cost evaluations only, so it is stated of each cost
\* evaluation of learn_update that follows an unscaled one.
C15_FadeInNeverComesBack ==
    [][ (UpdateCostEvaluated /\ ~FadeInApplied) => ~FadeInApplied' ]_vars

-----------------------------------------------------------------------------
(* Claims about the first two actions *)

\* calc_everything returns: torch.cross does not raise
CalcReturns == ~CalcRaises(states)

\* C13: in every state reached through optimizer steps and update_state calls,
\* the thrusts of the first two actions are mass times the two entries of
\* initial_accel: actions[0,0] = mass * initial_accel[0] and
\* actions[1,0] = mass * initial_accel[1], the equality get_actions checks.
C13_FirstThrustsAreInitialAccel ==
    CalcReturns =>
        /\ Calc.actions[1][1] = mass * initial_accel[1]
        /\ Calc.actions[2][1] = mass * initial_accel[2]

\* the same with the magnitudes of the entries: what torch.norm gives
FirstThrustsAreInitialAccelMagnitudes ==
    CalcReturns =>
        /\ Calc.actions[1][1] = mass * Abs(initial_accel[1])
        /\ Calc.actions[2][1] = mass * Abs(initial_accel[2])


-----------------------------------------------------------------------------
(* Claims about the horizon update_state shortens *)

\* the body z-axes calc_everything keeps: z_axis_body[2:-2]
InteriorZAxes == Len(Calc.accel) - 4

\* C14: in every state reached from a System constructed with steps >= 5 by any
\* sequence of update_state calls, at least one free interior step remains, and
\* the interior body z-axes calc_everything takes from the accelerations
\* (entries 2 .. length-3) are as many as the heading angles (rows of states).
C14_HorizonStaysWellFormed ==
    /\ Len(states) >= 1
    /\ InteriorZAxes = Len(states)

=============================================================================
